---- MODULE Spec2Model ----
\* A model of src/src/server.py (bio-mcp-amber): the two tool handlers
\* amber_relax_pdb and amber_prepare_system, the three external steps they
\* drive (tleap, pmemd, cpptraj), the scratch directories they work in and
\* the responses they return.
EXTENDS Integers, Sequences, FiniteSets, TLC

\* ---------------------------------------------------------------------
\* Bounds
\* ---------------------------------------------------------------------
\* Number of tool invocations that may be in flight together.
NumOps == 2

Ops == 1 .. NumOps

\* Names tempfile may hand out for scratch directories.
Dirs == 1 .. NumOps

\* ---------------------------------------------------------------------
\* ServerSettings (defaults)
\* ---------------------------------------------------------------------
max_file_size == 100000000
timeout == 1800
tleap_path == "tleap"
pmemd_path == "pmemd"
amber_path == "amber"

\* ---------------------------------------------------------------------
\* The caller's files and requests
\* ---------------------------------------------------------------------
\* Paths a caller names, and the sizes of those that exist on the host.
MissingPath == "/nonexistent/file.pdb"
ValidPath == "/data/valid.pdb"
ExactPath == "/data/exact.pdb"
LargePath == "/data/large.pdb"

HostFiles ==
  (ValidPath :> 400) @@ (ExactPath :> max_file_size)
    @@ (LargePath :> max_file_size + 1)

\* Path.exists()
Exists(path) == path \in DOMAIN HostFiles

\* Path.stat().st_size
StSize(path) == HostFiles[path]

\* Path.name: the final component of the path
PathName(path) ==
  CASE path = MissingPath -> "file.pdb"
    [] path = ValidPath -> "valid.pdb"
    [] path = ExactPath -> "exact.pdb"
    [] path = LargePath -> "large.pdb"

ToolNames == {"amber_relax_pdb", "amber_prepare_system", "amber_unknown"}

\* Argument mappings a caller may send; any key may be left out.
Arguments ==
  { [force_field |-> "ff14SB"] }
    \cup { [input_file |-> p] : p \in DOMAIN HostFiles \cup {MissingPath} }
    \cup { [input_file |-> ValidPath, force_field |-> "ff14SB",
            water_model |-> "opc"],
           [input_file |-> ValidPath, steps |-> 5000, restraints |-> TRUE],
           [input_file |-> ValidPath, steps |-> 7, water_model |-> "opc"],
           [input_file |-> ValidPath, steps |-> -3] }

\* The requests of the concurrent specification: both tools on a good file.
ConcArguments == { [input_file |-> ValidPath] }

ConcToolNames == {"amber_relax_pdb", "amber_prepare_system"}

\* A lookup that gives the default whether or not the key is there.
GetDefault(arguments, key, default) == default

\* dict.get(key, default)
Get(arguments, key, default) ==
  IF key \in DOMAIN arguments THEN arguments[key] ELSE default

\* ---------------------------------------------------------------------
\* Responses and step results
\* ---------------------------------------------------------------------
\* A message is the sequence of the pieces its f-string is built from.
ErrorData(code, message) ==
  [type |-> "error", code |-> code, message |-> message]

TextContent(text) == [type |-> "text", text |-> text]

StepOk(log) == [success |-> TRUE, log |-> log]

StepFail(error) == [success |-> FALSE, error |-> error]

\* A local variable that has not been assigned yet.
Unset == [unset |-> TRUE]

\* bytes.decode(): text of valid UTF-8 output; raises otherwise
CanDecode(bytes) == bytes.utf8

Decode(bytes) == bytes.text

DecodeError == "'utf-8' codec can't decode"

OSErrorText == "[Errno] OSError"

KeyErrorText == "'input_file'"

\* ---------------------------------------------------------------------
\* State
\* ---------------------------------------------------------------------
VARIABLES
  op,      \* op[o]: one tool invocation: its request, position, locals, response
  fs,      \* scratch directories that exist: directory -> (file name -> content)
  procs,   \* procs[o]: the external processes op o has started, in order
  logged,  \* records written to the logger
  world    \* what the host may do in this run: the outcomes open to the
           \* file system and to the tools

vars == <<op, fs, procs, logged, world>>

NoDir == 0

NoPid == 0

NoWait == [pid |-> NoPid, timeout |-> <<>>]

Locals ==
  [input_path |-> "", force_field |-> "", water_model |-> "", steps |-> 0,
   restraints |-> FALSE, tmpdir |-> NoDir, prep_result |-> Unset,
   min_result |-> Unset, stdout |-> Unset, wait |-> NoWait,
   response |-> <<>>]

NewOp(pc, name, arguments) ==
  [pc |-> pc, name |-> name, arguments |-> arguments] @@ Locals

\* ---------------------------------------------------------------------
\* Scratch directories (tempfile.TemporaryDirectory) and their files
\* ---------------------------------------------------------------------
\* Path.write_text / write_bytes: create or replace one file of a directory
WriteFile(files, name, content) ==
  [n \in DOMAIN files \cup {name} |-> IF n = name THEN content ELSE files[n]]

\* TemporaryDirectory.__enter__: a new, empty directory
MkDtemp(dirs, d) == [x \in DOMAIN dirs \cup {d} |-> IF x = d THEN << >> ELSE dirs[x]]

\* A scope whose exit leaves the directory behind.
ExitScopeLeak(dirs, d) == dirs

\* TemporaryDirectory.__exit__: the directory and all it holds are removed,
\* whether the with-block is left by return or by an exception
ExitScope(dirs, d) == [x \in DOMAIN dirs \ {d} |-> dirs[x]]

\* ---------------------------------------------------------------------
\* Leaving a handler
\* ---------------------------------------------------------------------
\* return [...] : the handler's single response
Return(r, resp) ==
  [r EXCEPT !.pc = "done", !.response = Append(@, resp), !.wait = NoWait]

\* except Exception as e: logger.error(...); return [ErrorData(500, "Error: e")]
Unexpected(e) == ErrorData(500, <<"Error: ", e>>)

\* An exception that leaves the handler instead of being caught.
Uncaught(r, e) == [r EXCEPT !.pc = "raised", !.wait = NoWait]

\* try: ... except Exception as e: the handler's own response to an exception
Caught(r, e) == Return(r, Unexpected(e))

HandlerName(name) ==
  IF name = "amber_relax_pdb" THEN "Error running AMBER relaxation: "
  ELSE "Error preparing AMBER system: "

LogError(o, e) ==
  logged \cup {[level |-> "error", op |-> o, msg |-> <<HandlerName(op[o].name), e>>]}

LogWarning(o, e) ==
  logged \cup {[level |-> "warning", op |-> o, msg |-> <<"Failed to convert to PDB: ", e>>]}

\* ---------------------------------------------------------------------
\* Dispatch and validation
\* ---------------------------------------------------------------------
\* A dispatch whose last branch is a handler instead of the error.
CallToolNoElse(o) ==
  /\ op[o].pc = "pending"
  /\ op' = [op EXCEPT ![o].pc = "validate"]
  /\ UNCHANGED <<fs, procs, logged, world>>

\* call_tool: dispatch by tool name
CallTool(o) ==
  /\ op[o].pc = "pending"
  /\ IF op[o].name \in {"amber_relax_pdb", "amber_prepare_system"}
     THEN op' = [op EXCEPT ![o].pc = "validate"]
     ELSE op' = [op EXCEPT ![o] =
                   Return(@, ErrorData(500, <<"Unknown tool: ", op[o].name>>))]
  /\ UNCHANGED <<fs, procs, logged, world>>

NotFound(input_path) == ErrorData(404, <<"Input file not found: ", input_path>>)

TooLarge == 
  ErrorData(413, <<"File too large. Maximum size: ", ToString(max_file_size), " bytes">>)

\* ValidationError without the existence check.
ValidationErrorNoExists(input_path) ==
  IF Exists(input_path) /\ StSize(input_path) > max_file_size THEN TooLarge
  ELSE Unset

\* ValidationError without the size check.
ValidationErrorNoSize(input_path) ==
  IF ~Exists(input_path) THEN NotFound(input_path) ELSE Unset

\* ValidationError turning away a file of exactly the maximum size.
ValidationErrorAtLimit(input_path) ==
  IF ~Exists(input_path) THEN NotFound(input_path)
  ELSE IF StSize(input_path) >= max_file_size THEN TooLarge
  ELSE Unset

\* The two checks on the caller's path; Unset when the path passes both.
ValidationError(input_path) ==
  IF ~Exists(input_path) THEN NotFound(input_path)
  ELSE IF StSize(input_path) > max_file_size THEN TooLarge
  ELSE Unset

\* _relax_pdb / _prepare_system up to the with-statement: read the arguments,
\* check the input path, take the defaults of the optional arguments
Validate(o) ==
  /\ op[o].pc = "validate"
  /\ LET a == op[o].arguments IN
     IF "input_file" \notin DOMAIN a
     THEN /\ op' = [op EXCEPT ![o] = Caught(@, KeyErrorText)]
          /\ logged' = LogError(o, KeyErrorText)
     ELSE LET err == ValidationError(a.input_file) IN
          /\ logged' = logged
          /\ IF err # Unset
             THEN op' = [op EXCEPT ![o] =
                           Return([@ EXCEPT !.input_path = a.input_file], err)]
             ELSE op' = [op EXCEPT ![o] =
                    [@ EXCEPT !.pc = "acquire",
                              !.input_path = a.input_file,
                              !.force_field = Get(a, "force_field", "ff19SB"),
                              !.water_model =
                                 IF op[o].name = "amber_prepare_system"
                                 THEN Get(a, "water_model", "tip3p")
                                 ELSE @,
                              !.steps =
                                 IF op[o].name = "amber_relax_pdb"
                                 THEN Get(a, "steps", 10000)
                                 ELSE @,
                              !.restraints =
                                 IF op[o].name = "amber_relax_pdb"
                                 THEN Get(a, "restraints", FALSE)
                                 ELSE @]]
  /\ UNCHANGED <<fs, procs, world>>

\* A directory name taken without looking at the names in use.
AnyDirs(dirs) == Dirs

\* mkdtemp: the new directory has a name no existing directory has
FreshDirs(dirs) == Dirs \ DOMAIN dirs

\* with tempfile.TemporaryDirectory(...) as tmpdir, and the copy of the input
\* into it.  mkdtemp or the copy may raise; an exception raised inside the
\* with-block removes the directory on its way to the handler's except clause.
Acquire(o) ==
  /\ op[o].pc = "acquire"
  /\ \/ \* mkdtemp raises: no directory
        /\ world.raises
        /\ op' = [op EXCEPT ![o] = Caught(@, OSErrorText)]
        /\ logged' = LogError(o, OSErrorText)
        /\ fs' = fs
     \/ \E d \in FreshDirs(fs) :
          \/ \* read_bytes or write_bytes raises
             /\ world.raises \/ ~Exists(op[o].input_path)
             /\ op' = [op EXCEPT ![o] =
                         Caught([@ EXCEPT !.tmpdir = d], OSErrorText)]
             /\ logged' = LogError(o, OSErrorText)
             /\ fs' = ExitScope(MkDtemp(fs, d), d)
          \/ /\ Exists(op[o].input_path)
             /\ op' = [op EXCEPT ![o] = [@ EXCEPT !.pc = "prep_spawn", !.tmpdir = d]]
             /\ logged' = logged
             /\ fs' = [MkDtemp(fs, d) EXCEPT ![d] =
                         WriteFile(@, PathName(op[o].input_path),
                                   [copy_of |-> op[o].input_path,
                                    size |-> StSize(op[o].input_path)])]
  /\ UNCHANGED <<procs, world>>

\* ---------------------------------------------------------------------
\* External processes
\* ---------------------------------------------------------------------
\* asyncio.create_subprocess_exec(*cmd, stdout=PIPE, stderr=PIPE, cwd=tmpdir)
NewProc(o, step, cmd, cwd) ==
  [owner |-> o, step |-> step, cmd |-> cmd, cwd |-> cwd, state |-> "running",
   wrote |-> FALSE, returncode |-> << >>, stdout |-> Unset, stderr |-> Unset]

ExecErrorText == "[Errno 2] No such file or directory"

\* A timeout that does not signal the process.
KillNothing(ps, o, pid) == ps

\* A kill that reaches every running process of the server.
KillAll(ps, o, pid) ==
  [q \in DOMAIN ps |->
     [i \in DOMAIN ps[q] |->
        IF ps[q][i].state = "running" THEN [ps[q][i] EXCEPT !.state = "killed"]
        ELSE ps[q][i]]]

\* process.kill(): the signal goes to that one process
Kill(ps, o, pid) == [ps EXCEPT ![o][pid].state = "killed"]

\* Lengths of the structure file cpptraj may write.
PdbLens == {120, 2000, 2001}

\* The files each tool leaves in its working directory.
Outputs(step, len) ==
  CASE step = "prep" ->
         ("system.prmtop" :> [text |-> "prmtop", len |-> 5120])
           @@ ("system.inpcrd" :> [text |-> "inpcrd", len |-> 2048])
           @@ ("prepared.pdb" :> [text |-> "prepared", len |-> 640])
    [] step = "min" ->
         ("minimization.log" :> [text |-> "pmemd log", len |-> 9])
           @@ ("minimized.rst" :> [text |-> "restart", len |-> 7])
    [] step = "conv" ->
         ("minimized.pdb" :> [text |-> "relaxed", len |-> len])

\* A running tool writes its output files into its working directory.
ProcWrite(o, pid) ==
  /\ pid \in DOMAIN procs[o]
  /\ procs[o][pid].state = "running"
  /\ ~procs[o][pid].wrote
  /\ procs[o][pid].cwd \in DOMAIN fs
  /\ \E len \in IF procs[o][pid].step = "conv" THEN world.lens ELSE {0} :
       LET out == Outputs(procs[o][pid].step, len) IN
       fs' = [fs EXCEPT ![procs[o][pid].cwd] =
                [n \in DOMAIN @ \cup DOMAIN out |->
                   IF n \in DOMAIN out THEN out[n] ELSE @[n]]]
  /\ procs' = [procs EXCEPT ![o][pid].wrote = TRUE]
  /\ UNCHANGED <<op, logged, world>>

\* A running tool exits, with a status and what it printed.
ProcExit(o, pid) ==
  /\ pid \in DOMAIN procs[o]
  /\ procs[o][pid].state = "running"
  /\ \E rc \in world.statuses, utf8 \in world.utf8 :
       procs' = [procs EXCEPT ![o][pid] =
                   [@ EXCEPT !.state = "exited",
                             !.returncode = <<rc>>,
                             !.stdout = [text |-> procs[o][pid].step \o " stdout",
                                         utf8 |-> utf8],
                             !.stderr = [text |-> procs[o][pid].step \o " stderr",
                                         utf8 |-> utf8]]]
  /\ UNCHANGED <<op, fs, logged, world>>

\* An except clause that loses the exception's text.
StepLost(e) == StepFail(<< >>)

\* except Exception as e: return {"success": False, "error": str(e)}
\* (the except clause of each step)
StepCaught(e) == StepFail(<<e>>)

\* A StepResult built from decoded output: bytes.decode() raises on bytes
\* that are not UTF-8, and the step's except clause returns str(e).
DecodeOr(bytes, result) ==
  IF CanDecode(bytes) THEN result ELSE StepCaught(DecodeError)

\* An exit status that is never looked at.
NeverFailed(p) == FALSE

\* if process.returncode != 0
Failed(p) == p.returncode[1] # 0

\* The StepResult of a tool that has exited (communicate() has returned):
\* non-zero status is a failure embedding stderr, zero a success with stdout.
ExitResult(tool, p) ==
  IF Failed(p)
  THEN DecodeOr(p.stderr, StepFail(<<tool \o " failed: ", Decode(p.stderr)>>))
  ELSE DecodeOr(p.stdout, StepOk(Decode(p.stdout)))

\* The StepResult of a tool that outlived asyncio.wait_for's timeout.
TimeoutResult(what, seconds) ==
  StepFail(<<what \o " timed out after ", ToString(seconds), " seconds">>)

\* ---------------------------------------------------------------------
\* Step 1: _prepare_system_internal (tleap)
\* ---------------------------------------------------------------------
\* str(Path(tmpdir) / name)
DirPath(d, name) == "/tmp/tmp" \o ToString(d) \o "/" \o name

\* The tleap script, by the values its template interpolates.
LeapScript(pdb_name, force_field, water_model) ==
  [script |-> "prep.leap", protein |-> "leaprc.protein." \o force_field,
   water |-> "leaprc.water." \o water_model, loadpdb |-> pdb_name]

\* Both handlers passing on the water model of the request.
PrepWaterModelOfCaller(r) == Get(r.arguments, "water_model", "tip3p")

\* The water model each handler passes to the preparation step.
PrepWaterModel(r) ==
  IF r.name = "amber_relax_pdb" THEN "tip3p" ELSE r.water_model

\* Write prep.leap and start tleap.  An exception on the way is caught by
\* the step's own except clause and becomes a failed StepResult.
PrepSpawn(o) ==
  /\ op[o].pc = "prep_spawn"
  /\ LET d == op[o].tmpdir
         script == LeapScript(PathName(op[o].input_path), op[o].force_field,
                              PrepWaterModel(op[o]))
         written == [fs EXCEPT ![d] = WriteFile(@, "prep.leap", script)]
     IN
     \/ \* write_text raises
        /\ world.raises
        /\ op' = [op EXCEPT ![o] =
                    [@ EXCEPT !.pc = "prep_ret",
                              !.prep_result = StepCaught(OSErrorText)]]
        /\ UNCHANGED <<fs, procs>>
     \/ \* create_subprocess_exec raises
        /\ world.raises
        /\ op' = [op EXCEPT ![o] =
                    [@ EXCEPT !.pc = "prep_ret",
                              !.prep_result = StepCaught(ExecErrorText)]]
        /\ fs' = written
        /\ UNCHANGED procs
     \/ /\ procs' = [procs EXCEPT ![o] = Append(@, NewProc(o, "prep", <<tleap_path, "-f", DirPath(d, "prep.leap")>>, d))]
        /\ op' = [op EXCEPT ![o] =
                    [@ EXCEPT !.pc = "prep_wait",
                              !.wait = [pid |-> Len(procs[o]) + 1,
                                        timeout |-> <<timeout>>]]]
        /\ fs' = written
  /\ UNCHANGED <<logged, world>>

\* communicate() returns within the timeout: the tool has exited.
PrepCommunicate(o) ==
  /\ op[o].pc = "prep_wait"
  /\ procs[o][op[o].wait.pid].state = "exited"
  /\ op' = [op EXCEPT ![o] =
              [@ EXCEPT !.pc = "prep_ret",
                        !.wait = NoWait,
                        !.prep_result = ExitResult("tleap", procs[o][op[o].wait.pid])]]
  /\ UNCHANGED <<fs, procs, logged, world>>

\* asyncio.TimeoutError: the tool is still running when the timeout elapses.
PrepTimeout(o) ==
  /\ op[o].pc = "prep_wait"
  /\ op[o].wait.timeout # << >>
  /\ procs[o][op[o].wait.pid].state = "running"
  /\ procs' = Kill(procs, o, op[o].wait.pid)
  /\ op' = [op EXCEPT ![o] =
              [@ EXCEPT !.pc = "prep_ret",
                        !.wait = NoWait,
                        !.prep_result = TimeoutResult("tleap", op[o].wait.timeout[1])]]
  /\ UNCHANGED <<fs, logged, world>>

\* if not result["success"]: return [ErrorData(500, "<what> failed: <error>")]
StepFailed(what, result) == ErrorData(500, <<what \o " failed: ">> \o result.error)

\* A look at the workspace made after the with-block has been left.
FileExistsAfterCleanup(d, name) ==
  LET after == ExitScope(fs, d) IN d \in DOMAIN after /\ name \in DOMAIN after[d]

\* Whether a file exists in a scratch directory that still exists.
FileExists(d, name) == d \in DOMAIN fs /\ name \in DOMAIN fs[d]

\* The success payload of _prepare_system.
PrepareText(r) ==
  <<"AMBER system preparation completed successfully!\n\n",
    "Force field: ", r.force_field, "\n",
    "Water model: ", r.water_model, "\n\n",
    "tleap log:\n", r.prep_result.log, "\n\n">>
  \o (IF FileExists(r.tmpdir, "system.prmtop")
      THEN <<"Parameter file generated: system.prmtop (",
             ToString(fs[r.tmpdir]["system.prmtop"].len), " bytes)\n">>
      ELSE << >>)
  \o (IF FileExists(r.tmpdir, "system.inpcrd")
      THEN <<"Coordinate file generated: system.inpcrd (",
             ToString(fs[r.tmpdir]["system.inpcrd"].len), " bytes)\n">>
      ELSE << >>)

\* _prepare_system after its preparation step has returned
PrepareFinish(o) ==
  /\ op[o].pc = "prep_ret"
  /\ op[o].name = "amber_prepare_system"
  /\ IF ~op[o].prep_result.success
     THEN op' = [op EXCEPT ![o] =
                   Return(@, StepFailed("System preparation", op[o].prep_result))]
     ELSE op' = [op EXCEPT ![o] = Return(@, TextContent(PrepareText(op[o])))]
  /\ fs' = ExitScope(fs, op[o].tmpdir)
  /\ UNCHANGED <<procs, logged, world>>

\* _relax_pdb running the preparation again after it has failed.
RelaxAfterPrepRetry(o) ==
  /\ op[o].pc = "prep_ret"
  /\ op[o].name = "amber_relax_pdb"
  /\ IF ~op[o].prep_result.success
     THEN /\ op' = [op EXCEPT ![o].pc = "prep_spawn"]
          /\ fs' = fs
     ELSE /\ op' = [op EXCEPT ![o].pc = "min_spawn"]
          /\ fs' = fs
  /\ UNCHANGED <<procs, logged, world>>

\* _relax_pdb going on to minimization whatever the preparation returned.
RelaxAfterPrepNoCheck(o) ==
  /\ op[o].pc = "prep_ret"
  /\ op[o].name = "amber_relax_pdb"
  /\ op' = [op EXCEPT ![o].pc = "min_spawn"]
  /\ UNCHANGED <<fs, procs, logged, world>>

\* _relax_pdb after its preparation step has returned
RelaxAfterPrep(o) ==
  /\ op[o].pc = "prep_ret"
  /\ op[o].name = "amber_relax_pdb"
  /\ IF ~op[o].prep_result.success
     THEN /\ op' = [op EXCEPT ![o] =
                      Return(@, StepFailed("System preparation", op[o].prep_result))]
          /\ fs' = ExitScope(fs, op[o].tmpdir)
     ELSE /\ op' = [op EXCEPT ![o].pc = "min_spawn"]
          /\ fs' = fs
  /\ UNCHANGED <<procs, logged, world>>

\* ---------------------------------------------------------------------
\* Step 2: _run_minimization (pmemd), and step 3: _convert_to_pdb (cpptraj)
\* ---------------------------------------------------------------------
\* A control file whose ncyc is the whole step count.
MinInputAllSteepest(steps, restraints) ==
  [script |-> "min.in", imin |-> 1, maxcyc |-> steps, ncyc |-> steps,
   ntb |-> 0, ntr |-> restraints]

\* The minimization control file, by the values its template interpolates.
MinInput(steps, restraints) ==
  [script |-> "min.in", imin |-> 1, maxcyc |-> steps, ncyc |-> steps \div 2,
   ntb |-> 0, ntr |-> restraints]

\* The restraint file written next to it when restraints are asked for.
RstContent == [script |-> "restraints.rst", weight |-> "10.0", first |-> 1, last |-> 999]

MinFiles(files, steps, restraints) ==
  LET withInput == WriteFile(files, "min.in", MinInput(steps, restraints))
  IN IF restraints THEN WriteFile(withInput, "restraints.rst", RstContent)
     ELSE withInput

PmemdCmd ==
  <<pmemd_path, "-O", "-i", "min.in", "-o", "minimization.log",
    "-p", "system.prmtop", "-c", "system.inpcrd", "-r", "minimized.rst",
    "-ref", "system.inpcrd">>

\* Write min.in (and restraints.rst) and start pmemd.
MinSpawn(o) ==
  /\ op[o].pc = "min_spawn"
  /\ LET d == op[o].tmpdir
         written == [fs EXCEPT ![d] = MinFiles(@, op[o].steps, op[o].restraints)]
     IN
     \/ \* write_text raises
        /\ world.raises
        /\ op' = [op EXCEPT ![o] =
                    [@ EXCEPT !.pc = "min_ret",
                              !.min_result = StepCaught(OSErrorText)]]
        /\ UNCHANGED <<fs, procs>>
     \/ \* write_text of restraints.rst raises, min.in being written
        /\ world.raises
        /\ op[o].restraints
        /\ op' = [op EXCEPT ![o] =
                    [@ EXCEPT !.pc = "min_ret",
                              !.min_result = StepCaught(OSErrorText)]]
        /\ fs' = [fs EXCEPT ![d] = MinFiles(@, op[o].steps, FALSE)]
        /\ UNCHANGED procs
     \/ \* create_subprocess_exec raises
        /\ world.raises
        /\ op' = [op EXCEPT ![o] =
                    [@ EXCEPT !.pc = "min_ret",
                              !.min_result = StepCaught(ExecErrorText)]]
        /\ fs' = written
        /\ UNCHANGED procs
     \/ /\ procs' = [procs EXCEPT ![o] = Append(@, NewProc(o, "min", PmemdCmd, d))]
        /\ op' = [op EXCEPT ![o] =
                    [@ EXCEPT !.pc = "min_wait",
                              !.wait = [pid |-> Len(procs[o]) + 1,
                                        timeout |-> <<timeout>>]]]
        /\ fs' = written
  /\ UNCHANGED <<logged, world>>

\* communicate() returns within the timeout.  A non-zero status ends the
\* step; status zero goes on to the conversion, keeping stdout for the log.
MinCommunicate(o) ==
  /\ op[o].pc = "min_wait"
  /\ procs[o][op[o].wait.pid].state = "exited"
  /\ LET p == procs[o][op[o].wait.pid] IN
     IF Failed(p)
     THEN op' = [op EXCEPT ![o] =
                   [@ EXCEPT !.pc = "min_ret",
                             !.wait = NoWait,
                             !.min_result = ExitResult("pmemd", p)]]
     ELSE op' = [op EXCEPT ![o] =
                   [@ EXCEPT !.pc = "conv_spawn",
                             !.wait = NoWait,
                             !.stdout = p.stdout]]
  /\ UNCHANGED <<fs, procs, logged, world>>

MinTimeout(o) ==
  /\ op[o].pc = "min_wait"
  /\ op[o].wait.timeout # << >>
  /\ procs[o][op[o].wait.pid].state = "running"
  /\ procs' = Kill(procs, o, op[o].wait.pid)
  /\ op' = [op EXCEPT ![o] =
              [@ EXCEPT !.pc = "min_ret",
                        !.wait = NoWait,
                        !.min_result =
                           TimeoutResult("Minimization", op[o].wait.timeout[1])]]
  /\ UNCHANGED <<fs, logged, world>>

\* The cpptraj script (a fixed template).
CpptrajScript ==
  [script |-> "convert.cpptraj", parm |-> "system.prmtop",
   trajin |-> "minimized.rst", trajout |-> "minimized.pdb"]

CpptrajCmd == <<"cpptraj", "-i", "convert.cpptraj">>

\* The timeout _convert_to_pdb awaits communicate() with: none.
ConvTimeout == << >>

\* return {"success": True, "log": stdout.decode()} of _run_minimization,
\* reached once _convert_to_pdb has returned
MinReturn(stdout) == DecodeOr(stdout, StepOk(Decode(stdout)))

\* Write convert.cpptraj and start cpptraj.  An exception is logged as a
\* warning and swallowed; _run_minimization then returns its result.
ConvSpawn(o) ==
  /\ op[o].pc = "conv_spawn"
  /\ LET d == op[o].tmpdir
         written == [fs EXCEPT ![d] = WriteFile(@, "convert.cpptraj", CpptrajScript)]
         returned == [op EXCEPT ![o] =
                        [@ EXCEPT !.pc = "min_ret",
                                  !.min_result = MinReturn(op[o].stdout)]]
     IN
     \/ \* write_text raises
        /\ world.raises
        /\ op' = returned
        /\ logged' = LogWarning(o, OSErrorText)
        /\ UNCHANGED <<fs, procs>>
     \/ \* create_subprocess_exec raises
        /\ world.raises
        /\ op' = returned
        /\ logged' = LogWarning(o, ExecErrorText)
        /\ fs' = written
        /\ UNCHANGED procs
     \/ /\ procs' = [procs EXCEPT ![o] = Append(@, NewProc(o, "conv", CpptrajCmd, d))]
        /\ op' = [op EXCEPT ![o] =
                    [@ EXCEPT !.pc = "conv_wait",
                              !.wait = [pid |-> Len(procs[o]) + 1,
                                        timeout |-> ConvTimeout]]]
        /\ fs' = written
        /\ logged' = logged
  /\ UNCHANGED world

\* await process.communicate() of _convert_to_pdb returns: cpptraj has
\* exited, with whatever status; _run_minimization then returns its result.
ConvCommunicate(o) ==
  /\ op[o].pc = "conv_wait"
  /\ procs[o][op[o].wait.pid].state = "exited"
  /\ op' = [op EXCEPT ![o] =
              [@ EXCEPT !.pc = "min_ret",
                        !.wait = NoWait,
                        !.min_result = MinReturn(op[o].stdout)]]
  /\ UNCHANGED <<fs, procs, logged, world>>

\* ---------------------------------------------------------------------
\* The result of _relax_pdb
\* ---------------------------------------------------------------------
\* A boolean rendered the JSON way.
PyStrLower(b) == IF b THEN "true" ELSE "false"

\* str(bool)
PyStr(b) == IF b THEN "True" ELSE "False"

\* text, unsliced
SliceAll(content, k) == content

\* text[:k]
Slice(content, k) ==
  [content EXCEPT !.len = IF @ > k THEN k ELSE @]

\* A piece of payload holding the first len characters of a file's text.
Piece(content) == content.text \o "#" \o ToString(content.len)

PreviewLen == 2000

\* The success payload of _relax_pdb.
RelaxText(r) ==
  <<"AMBER PDB relaxation completed successfully!\n\n",
    "Force field: ", r.force_field, "\n",
    "Minimization steps: ", ToString(r.steps), "\n",
    "Restraints applied: ", PyStr(r.restraints), "\n\n">>
  \o (IF FileExists(r.tmpdir, "minimization.log")
      THEN <<"Minimization log:\n",
             Piece(fs[r.tmpdir]["minimization.log"]), "\n\n">>
      ELSE << >>)
  \o (IF FileExists(r.tmpdir, "minimized.pdb")
      THEN LET pdb == fs[r.tmpdir]["minimized.pdb"] IN
           <<"Relaxed structure saved to: ", DirPath(r.tmpdir, "minimized.pdb"), "\n",
             "Final structure coordinates:\n",
             Piece(Slice(pdb, PreviewLen))>>
           \o (IF pdb.len > PreviewLen THEN <<"\n... (truncated)">> ELSE << >>)
      ELSE << >>)

\* _relax_pdb after its minimization step has returned
RelaxFinish(o) ==
  /\ op[o].pc = "min_ret"
  /\ \/ /\ ~op[o].min_result.success
        /\ op' = [op EXCEPT ![o] =
                    Return(@, StepFailed("Minimization", op[o].min_result))]
        /\ logged' = logged
     \/ /\ op[o].min_result.success
        /\ op' = [op EXCEPT ![o] = Return(@, TextContent(RelaxText(op[o])))]
        /\ logged' = logged
     \/ \* read_text raises
        /\ world.raises
        /\ op[o].min_result.success
        /\ \/ FileExists(op[o].tmpdir, "minimization.log")
           \/ FileExists(op[o].tmpdir, "minimized.pdb")
        /\ op' = [op EXCEPT ![o] = Caught(@, DecodeError)]
        /\ logged' = LogError(o, DecodeError)
  /\ fs' = ExitScope(fs, op[o].tmpdir)
  /\ UNCHANGED <<procs, world>>

\* ---------------------------------------------------------------------
\* Specifications
\* ---------------------------------------------------------------------
Next ==
  \/ \E o \in Ops : CallTool(o)
  \/ \E o \in Ops : Validate(o)
  \/ \E o \in Ops : Acquire(o)
  \/ \E o \in Ops : PrepSpawn(o)
  \/ \E o \in Ops : PrepCommunicate(o)
  \/ \E o \in Ops : PrepTimeout(o)
  \/ \E o \in Ops : PrepareFinish(o)
  \/ \E o \in Ops : RelaxAfterPrep(o)
  \/ \E o \in Ops : MinSpawn(o)
  \/ \E o \in Ops : MinCommunicate(o)
  \/ \E o \in Ops : MinTimeout(o)
  \/ \E o \in Ops : ConvSpawn(o)
  \/ \E o \in Ops : ConvCommunicate(o)
  \/ \E o \in Ops : RelaxFinish(o)
  \/ \E o \in Ops : \E pid \in DOMAIN procs[o] : ProcWrite(o, pid)
  \/ \E o \in Ops : \E pid \in DOMAIN procs[o] : ProcExit(o, pid)

\* Everything the host can do: file operations and process starts may raise,
\* a tool may exit with any status and print bytes that are not UTF-8, and
\* cpptraj may write a structure of any of the lengths.
AnyWorld == [raises |-> TRUE, statuses |-> {0, 1}, utf8 |-> BOOLEAN, lens |-> PdbLens]

\* A host on which nothing raises and the tools succeed when they exit at
\* all: what is left open is how long each tool runs.
CalmWorld == [raises |-> FALSE, statuses |-> {0}, utf8 |-> {TRUE}, lens |-> {120}]

NoRequest == NewOp("none", "", << >>)

\* One invocation at a time, over every request.
Init ==
  /\ op \in [Ops -> {NoRequest}
                    \cup {NewOp("pending", n, a) : n \in ToolNames, a \in Arguments}]
  /\ \A o \in Ops : o > 1 => op[o] = NoRequest
  /\ op[1] # NoRequest
  /\ fs = << >>
  /\ procs = [o \in Ops |-> << >>]
  /\ logged = {}
  /\ world = AnyWorld

Spec == Init /\ [][Next]_vars

\* Every slot holds an invocation of one of the tools on a good file; the
\* invocations interleave at their awaits.  The first two slots run either
\* tool, any further slot the one-step tool.
ConcInit ==
  /\ op \in [Ops -> {NewOp("pending", n, a) : n \in ConcToolNames, a \in ConcArguments}]
  /\ \A o \in Ops : o > 2 => op[o].name = "amber_prepare_system"
  /\ fs = << >>
  /\ procs = [o \in Ops |-> << >>]
  /\ logged = {}
  /\ world = CalmWorld

ConcSpec == ConcInit /\ [][Next]_vars

TypeOK ==
  /\ \A o \in Ops : op[o].pc \in
       {"none", "pending", "validate", "acquire", "prep_spawn", "prep_wait",
        "prep_ret", "min_spawn", "min_wait", "conv_spawn", "conv_wait",
        "min_ret", "done", "raised"}
  /\ DOMAIN fs \subseteq Dirs
  /\ \A o \in Ops : \A pid \in DOMAIN procs[o] :
       procs[o][pid].state \in {"running", "exited", "killed"}

\* ---------------------------------------------------------------------
\* Properties
\* ---------------------------------------------------------------------
\* An invocation of one of the two operations that names an input path.
NamesInput(o) ==
  /\ op[o].name \in {"amber_relax_pdb", "amber_prepare_system"}
  /\ "input_file" \in DOMAIN op[o].arguments

\* C1: an operation whose input path does not exist never creates a scratch
\* directory and never starts a process, and the response it returns is a
\* single error with code 404 whose message starts "Input file not found".
C1_NotFound ==
  \A o \in Ops :
    (NamesInput(o) /\ op[o].arguments.input_file \notin DOMAIN HostFiles) =>
      /\ op[o].tmpdir = NoDir
      /\ procs[o] = << >>
      /\ op[o].pc = "done" =>
           /\ Len(op[o].response) = 1
           /\ op[o].response[1].type = "error"
           /\ op[o].response[1].code = 404
           /\ op[o].response[1].message[1] = "Input file not found: "

C1_Witness ==
  \E o \in Ops :
    /\ NamesInput(o)
    /\ op[o].arguments.input_file = MissingPath
    /\ op[o].pc = "done"
    /\ op[o].response[1].code = 404

\* C2: an operation whose input file exists and is larger than max_file_size
\* never creates a scratch directory and never starts a process, and the
\* response it returns is a single error with code 413.
C2_TooLarge ==
  \A o \in Ops :
    (/\ NamesInput(o)
     /\ op[o].arguments.input_file \in DOMAIN HostFiles
     /\ HostFiles[op[o].arguments.input_file] > max_file_size) =>
      /\ op[o].tmpdir = NoDir
      /\ procs[o] = << >>
      /\ op[o].pc = "done" =>
           /\ Len(op[o].response) = 1
           /\ op[o].response[1].type = "error"
           /\ op[o].response[1].code = 413

C2_Witness ==
  \E o \in Ops :
    /\ NamesInput(o)
    /\ op[o].arguments.input_file = LargePath
    /\ op[o].pc = "done"
    /\ op[o].response[1].code = 413

\* A required step of op o has returned a StepResult with success = false.
PrepFailed(o) == op[o].prep_result # Unset /\ ~op[o].prep_result.success

MinFailed(o) == op[o].min_result # Unset /\ ~op[o].min_result.success

\* The single response of an operation that has returned.
Returned(o) == op[o].pc = "done" /\ Len(op[o].response) = 1

\* C3: once the preparation or the minimization step of an operation has
\* returned a failed StepResult, that operation starts no further process
\* (no minimization after a failed preparation, no conversion after a
\* minimization process that failed), and the operation's response is an
\* error carrying that step's error message.
C3_ShortCircuit ==
  /\ [](\A o \in Ops :
          /\ PrepFailed(o) =>
               /\ \A i \in DOMAIN procs[o] : procs[o][i].step = "prep"
               /\ op[o].pc = "done" =>
                    /\ Returned(o)
                    /\ op[o].response[1].type = "error"
                    /\ op[o].response[1].message =
                         <<"System preparation failed: ">> \o op[o].prep_result.error
          /\ MinFailed(o) =>
               /\ op[o].pc = "done" =>
                    /\ Returned(o)
                    /\ op[o].response[1].type = "error"
                    /\ op[o].response[1].message =
                         <<"Minimization failed: ">> \o op[o].min_result.error
          /\ \A i \in DOMAIN procs[o] :
               (/\ procs[o][i].step = "min"
                /\ \/ procs[o][i].state = "killed"
                   \/ procs[o][i].state = "exited" /\ procs[o][i].returncode # <<0>>)
               => \A j \in DOMAIN procs[o] : procs[o][j].step # "conv")
  /\ [][\A o \in Ops :
          (PrepFailed(o) \/ MinFailed(o)) => Len(procs'[o]) = Len(procs[o])]_vars

C3_Witness ==
  \E o \in Ops :
    /\ op[o].name = "amber_relax_pdb"
    /\ op[o].pc = "done"
    /\ MinFailed(o)
    /\ Len(procs[o]) = 2
    /\ procs[o][2].step = "min"
    /\ procs[o][2].returncode = <<1>>

\* The conversion step of op o failed: it could not be started, or cpptraj
\* exited with a non-zero status.
ConversionFailed(o) ==
  \/ \E l \in logged : l.op = o /\ l.level = "warning"
  \/ \E i \in DOMAIN procs[o] :
       /\ procs[o][i].step = "conv"
       /\ procs[o][i].state = "exited"
       /\ procs[o][i].returncode # <<0>>

\* The pieces of payload that hold content of the minimized restart file or
\* of the minimized structure file.
MinimizedContent == {"restart#7", "relaxed#120", "relaxed#2000"}

\* C4: when preparation and minimization succeed and the conversion fails,
\* relax_structure reports success and its payload holds the content of the
\* minimized restart or structure file.
C4_ContentDespiteConversionFailure ==
  \A o \in Ops :
    (/\ op[o].name = "amber_relax_pdb"
     /\ op[o].pc = "done"
     /\ op[o].prep_result # Unset /\ op[o].prep_result.success
     /\ op[o].min_result # Unset /\ op[o].min_result.success
     /\ ConversionFailed(o)) =>
      /\ Returned(o)
      /\ op[o].response[1].type = "text"
      /\ \E k \in DOMAIN op[o].response[1].text :
           op[o].response[1].text[k] \in MinimizedContent

\* C5: a scratch directory exists only while the operation that created it
\* has not returned: whatever way an operation leaves its with-block, its
\* directory is gone once it has returned its response.
C5_WorkspaceRemoved ==
  \A d \in DOMAIN fs :
    \E o \in Ops : op[o].tmpdir = d /\ op[o].pc \notin {"done", "raised"}

C5_Witness ==
  \E o \in Ops :
    /\ op[o].pc = "done"
    /\ op[o].tmpdir # NoDir
    /\ op[o].tmpdir \notin DOMAIN fs
    /\ Len(procs[o]) = 3
    /\ op[o].response[1].type = "error"
    /\ op[o].response[1].message[1] = "Error: "

\* The response of an operation whose step ran into the timeout: an error
\* 500 naming the step and the configured timeout, and nothing else.
TimeoutResponse(step) ==
  [type |-> "error", code |-> 500,
   message |->
     IF step = "prep"
     THEN <<"System preparation failed: ", "tleap timed out after ",
            ToString(timeout), " seconds">>
     ELSE <<"Minimization failed: ", "Minimization timed out after ",
            ToString(timeout), " seconds">>]

\* C6: when the handler gives up waiting for the process of a required step
\* that is still running (the timeout has elapsed), that process is killed;
\* a killed process is the last one its operation starts, and the operation
\* returns an error 500 whose message holds the configured timeout and
\* refers to no output file.
C6_Timeout ==
  /\ [](\A o \in Ops : \A i \in DOMAIN procs[o] :
          procs[o][i].state = "killed" =>
            /\ i = Len(procs[o])
            /\ procs[o][i].step \in {"prep", "min"}
            /\ op[o].pc = "done" =>
                 op[o].response = <<TimeoutResponse(procs[o][i].step)>>)
  /\ [][\A o \in Ops :
          (/\ op[o].wait.pid # NoPid
           /\ procs[o][op[o].wait.pid].step \in {"prep", "min"}
           /\ procs[o][op[o].wait.pid].state = "running"
           /\ op'[o].wait.pid = NoPid)
          => procs'[o][op[o].wait.pid].state = "killed"]_vars

C6_Witness ==
  \E o \in Ops :
    /\ op[o].pc = "done"
    /\ Len(procs[o]) = 2
    /\ procs[o][2].state = "killed"
    /\ procs[o][2].wrote
    /\ op[o].response[1].message[3] = "1800"

\* C7: an invocation of either operation ends only by returning, never by
\* an exception that leaves the handler; what it returns is exactly one
\* item, a text payload or an error with code 404, 413 or 500, and nothing
\* is returned before the end.
C7_OneResponse ==
  \A o \in Ops :
    /\ op[o].pc # "raised"
    /\ op[o].pc # "done" => op[o].response = << >>
    /\ (op[o].pc = "done"
        /\ op[o].name \in {"amber_relax_pdb", "amber_prepare_system"}) =>
         /\ Len(op[o].response) = 1
         /\ \/ op[o].response[1].type = "text"
            \/ /\ op[o].response[1].type = "error"
               /\ op[o].response[1].code \in {404, 413, 500}

C7_Witness ==
  \E o \in Ops :
    /\ op[o].name = "amber_relax_pdb"
    /\ "input_file" \notin DOMAIN op[o].arguments
    /\ op[o].pc = "done"
    /\ op[o].response[1].code = 500

\* C8: whenever an operation is waiting for one of its external processes,
\* the wait is bounded by the configured timeout.
C8_EveryWaitBounded ==
  \A o \in Ops : op[o].wait.pid # NoPid => op[o].wait.timeout = <<timeout>>

\* C9: the processes of one operation run one after the other: at most one
\* is running at any time, a minimization process exists only once the
\* preparation's StepResult is known and successful and its process has
\* exited, and a conversion process exists only after a minimization
\* process that has exited with status zero.
C9_Sequential ==
  \A o \in Ops :
    /\ Cardinality({i \in DOMAIN procs[o] : procs[o][i].state = "running"}) <= 1
    /\ \A i \in DOMAIN procs[o] :
         /\ procs[o][i].step = "min" =>
              /\ op[o].prep_result # Unset /\ op[o].prep_result.success
              /\ \E j \in 1 .. i - 1 :
                   /\ procs[o][j].step = "prep"
                   /\ procs[o][j].state = "exited"
                   /\ procs[o][j].returncode = <<0>>
         /\ procs[o][i].step = "conv" =>
              \E j \in 1 .. i - 1 :
                /\ procs[o][j].step = "min"
                /\ procs[o][j].state = "exited"
                /\ procs[o][j].returncode = <<0>>

C9_Witness ==
  \E o \in Ops :
    /\ Len(procs[o]) = 3
    /\ procs[o][3].step = "conv"
    /\ procs[o][3].state = "running"

\* Op o gives up waiting for a process that is still running.
TimesOut(o) ==
  /\ op[o].wait.pid # NoPid
  /\ procs[o][op[o].wait.pid].state = "running"
  /\ op'[o].wait.pid = NoPid

\* Op o returns an error.
Fails(o) ==
  /\ op[o].pc # "done"
  /\ op'[o].pc = "done"
  /\ op'[o].response[1].type = "error"

\* Nothing of op q changes: its position, locals and response, its
\* processes, and its scratch directory with the files in it.
Untouched(q) ==
  /\ op'[q] = op[q]
  /\ procs'[q] = procs[q]
  /\ (op[q].tmpdir \in DOMAIN fs /\ op[q].pc # "done") =>
       /\ op[q].tmpdir \in DOMAIN fs'
       /\ fs'[op[q].tmpdir] = fs[op[q].tmpdir]

\* C10: with several operations in flight, the step by which one operation
\* times out, and the step by which it then returns its error, leave every
\* other operation untouched; a process is only ever killed by the timeout
\* of the operation that started it.
C10_TimeoutIsolated ==
  /\ [](\A q \in Ops : \A i \in DOMAIN procs[q] :
          procs[q][i].state = "killed" =>
            \/ procs[q][i].step = "prep" /\ PrepFailed(q)
                 /\ op[q].prep_result.error[1] = "tleap timed out after "
            \/ procs[q][i].step = "min" /\ MinFailed(q)
                 /\ op[q].min_result.error[1] = "Minimization timed out after ")
  /\ [][\A o \in Ops :
          (TimesOut(o) \/ Fails(o)) => \A q \in Ops \ {o} : Untouched(q)]_vars

C10_Witness ==
  \E o, q \in Ops :
    /\ o # q
    /\ op[o].pc = "done"
    /\ \E i \in DOMAIN procs[o] : procs[o][i].state = "killed"
    /\ op[q].pc = "done"
    /\ op[q].response[1].type = "text"
    /\ \A i \in DOMAIN procs[q] : procs[q][i].state = "exited"

\* Op o is inside its with-block: it has a scratch directory and has not
\* returned.
Live(o) == op[o].tmpdir # NoDir /\ op[o].pc \notin {"done", "raised"}

\* C11: operations in flight never share a scratch directory: the directory
\* of an operation inside its with-block exists and is no other such
\* operation's directory, every process of an operation runs in that
\* operation's directory, and the directory and its files change only in
\* steps of the operation itself or of its own processes.
C11_OwnWorkspace ==
  /\ [](\A o \in Ops :
          /\ Live(o) =>
               /\ op[o].tmpdir \in DOMAIN fs
               /\ \A q \in Ops \ {o} : Live(q) => op[q].tmpdir # op[o].tmpdir
          /\ \A i \in DOMAIN procs[o] : procs[o][i].cwd = op[o].tmpdir)
  /\ [][\A q \in Ops :
          (Live(q) /\ op'[q] = op[q] /\ procs'[q] = procs[q]) =>
            /\ op[q].tmpdir \in DOMAIN fs'
            /\ fs'[op[q].tmpdir] = fs[op[q].tmpdir]]_vars

C11_Witness ==
  \E o, q \in Ops :
    /\ o # q
    /\ Live(o) /\ Live(q)
    /\ op[o].tmpdir # op[q].tmpdir
    /\ \E i \in DOMAIN procs[o] : procs[o][i].state = "running" /\ procs[o][i].wrote
    /\ \E i \in DOMAIN procs[q] : procs[q][i].state = "running" /\ procs[q][i].wrote

\* What the claimed outcome mapping gives for an exited process p of a
\* step run by tool: failure embedding stderr on a non-zero status, success
\* with stdout as the log on status zero.
MappedResult(tool, p) ==
  IF p.returncode # <<0>>
  THEN [success |-> FALSE, error |-> <<tool \o " failed: ", p.stderr.text>>]
  ELSE [success |-> TRUE, log |-> p.stdout.text]

\* C12: the StepResult of a required step whose process has exited is a
\* failure embedding the process's stderr when the status is non-zero, and a
\* success with the process's stdout as log when the status is zero; the
\* operation reports a failed step as an error 500 embedding that message.
C12_OutcomeMapping ==
  \A o \in Ops : \A i \in DOMAIN procs[o] :
    LET p == procs[o][i] IN
    /\ (p.step = "prep" /\ p.state = "exited" /\ op[o].prep_result # Unset) =>
         /\ op[o].prep_result = MappedResult("tleap", p)
         /\ (op[o].pc = "done" /\ p.returncode # <<0>>) =>
              op[o].response =
                << [type |-> "error", code |-> 500,
                    message |-> <<"System preparation failed: ",
                                  "tleap failed: ", p.stderr.text>>] >>
    /\ (p.step = "min" /\ p.state = "exited" /\ op[o].min_result # Unset) =>
         /\ op[o].min_result = MappedResult("pmemd", p)
         /\ (op[o].pc = "done" /\ p.returncode # <<0>>) =>
              op[o].response =
                << [type |-> "error", code |-> 500,
                    message |-> <<"Minimization failed: ",
                                  "pmemd failed: ", p.stderr.text>>] >>

\* Op o has started a process for the step.
Started(o, step) == \E i \in DOMAIN procs[o] : procs[o][i].step = step

\* What str(e) gives for the exceptions a step can run into before its
\* process exists.
SpawnErrors == {"[Errno] OSError", "[Errno 2] No such file or directory"}

ConvNotStarted(o) ==
  /\ op[o].pc \in {"min_ret", "done"}
  /\ op[o].stdout # Unset
  /\ ~Started(o, "conv")

ConvExitedNonZero(o) ==
  /\ op[o].pc \in {"min_ret", "done"}
  /\ \E i \in DOMAIN procs[o] :
       /\ procs[o][i].step = "conv"
       /\ procs[o][i].state = "exited"
       /\ procs[o][i].returncode # <<0>>

WarningLogged(o) ==
  \E l \in logged :
    l.op = o /\ l.level = "warning" /\ l.msg[1] = "Failed to convert to PDB: "

\* C14: whenever the conversion step of an operation has failed (its process
\* could not be started, or it exited with a non-zero status), a warning is
\* logged for it, the minimization step's StepResult is the one its own
\* process gave, and the operation's response is the success payload unless
\* the handler itself failed to read an output file.
C14_ConversionFailureLogged ==
  \A o \in Ops :
    (ConvNotStarted(o) \/ ConvExitedNonZero(o)) =>
      /\ WarningLogged(o)
      /\ op[o].min_result = MinReturn(op[o].stdout)
      /\ (op[o].pc = "done" /\ op[o].stdout.utf8) =>
           /\ Returned(o)
           /\ \/ op[o].response[1].type = "text"
              \/ op[o].response[1] = Unexpected(DecodeError)

\* C15: within one operation each step's process (preparation,
\* minimization, conversion) is started at most once, and once the
\* preparation or the minimization step has returned a failed StepResult the
\* operation starts nothing more, keeps that result, and can only return.
C15_NoRetry ==
  /\ [](\A o \in Ops : \A i, j \in DOMAIN procs[o] :
          i # j => procs[o][i].step # procs[o][j].step)
  /\ [][\A o \in Ops :
          (PrepFailed(o) \/ MinFailed(o)) =>
            /\ Len(procs'[o]) = Len(procs[o])
            /\ op'[o].prep_result = op[o].prep_result
            /\ op'[o].min_result = op[o].min_result
            /\ op'[o].pc \in {op[o].pc, "done"}]_vars

C15_Witness ==
  \E o \in Ops :
    /\ op[o].pc = "done"
    /\ MinFailed(o)
    /\ Len(procs[o]) = 2
    /\ procs[o][1].step = "prep" /\ procs[o][2].step = "min"
    /\ procs[o][2].returncode = <<1>>
    /\ op[o].response[1].type = "error"

\* C16: the control file the minimization process is started on is a
\* function of the steps N and the restraints flag of the request (10000 and
\* false when left out): it asks for maxcyc = N and ncyc = N // 2 (so 10000
\* gives 5000), it holds the restraint directives exactly when restraints is
\* true, and the restraint file, pinning residues 1 through 999, is in the
\* workspace exactly when restraints is true.
C16_ControlFile ==
  \A o \in Ops :
    LET d == op[o].tmpdir
        N == Get(op[o].arguments, "steps", 10000)
        R == Get(op[o].arguments, "restraints", FALSE)
    IN (Started(o, "min") /\ d \in DOMAIN fs) =>
         /\ FileExists(d, "min.in")
         /\ fs[d]["min.in"].maxcyc = N
         /\ 2 * fs[d]["min.in"].ncyc <= N
         /\ N <= 2 * fs[d]["min.in"].ncyc + 1
         /\ N = 10000 => fs[d]["min.in"].ncyc = 5000
         /\ fs[d]["min.in"].ntr = R
         /\ FileExists(d, "restraints.rst") <=> R
         /\ R => /\ fs[d]["restraints.rst"].first = 1
                 /\ fs[d]["restraints.rst"].last = 999

C16_Witness ==
  \E o \in Ops :
    /\ Started(o, "min")
    /\ op[o].arguments = [input_file |-> ValidPath, steps |-> 5000, restraints |-> TRUE]
    /\ FileExists(op[o].tmpdir, "restraints.rst")
    /\ fs[op[o].tmpdir]["min.in"].maxcyc = 5000
    /\ fs[op[o].tmpdir]["min.in"].ncyc = 2500
    /\ fs[op[o].tmpdir]["min.in"].ntr

\* Op o returns the success payload of amber_relax_pdb in this step.
RelaxSucceeds(o) ==
  /\ op[o].name = "amber_relax_pdb"
  /\ op[o].pc # "done"
  /\ op'[o].pc = "done"
  /\ Len(op'[o].response) = 1
  /\ op'[o].response[1].type = "text"

\* C17: when amber_relax_pdb succeeds and minimized.pdb is in the workspace,
\* the payload holds, right after "Final structure coordinates:", the first
\* 2000 characters of that file (all of it when it is shorter) and nothing
\* more of it, and the payload ends with the truncation marker if and only if
\* the file is longer than 2000 characters.
C17_Preview ==
  [][\A o \in Ops :
       (RelaxSucceeds(o) /\ FileExists(op[o].tmpdir, "minimized.pdb")) =>
         LET pdb == fs[op[o].tmpdir]["minimized.pdb"]
             text == op'[o].response[1].text
             k == IF pdb.len > 2000 THEN 2000 ELSE pdb.len
             at == {i \in DOMAIN text : text[i] = "Final structure coordinates:\n"}
         IN /\ Cardinality(at) = 1
            /\ \A i \in at :
                 /\ i + 1 \in DOMAIN text
                 /\ text[i + 1] = pdb.text \o "#" \o ToString(k)
                 /\ IF pdb.len > 2000
                    THEN /\ Len(text) = i + 2
                         /\ text[i + 2] = "\n... (truncated)"
                    ELSE Len(text) = i + 1
            /\ \A j \in DOMAIN text :
                 text[j] = "\n... (truncated)" => pdb.len > 2000]_vars

C17_Witness ==
  \E o \in Ops :
    /\ op[o].name = "amber_relax_pdb"
    /\ Returned(o)
    /\ op[o].response[1].type = "text"
    /\ LET text == op[o].response[1].text IN
       /\ text[Len(text)] = "\n... (truncated)"
       /\ text[Len(text) - 1] = "relaxed#2000"

\* The force field and the water model in effect for a request.
EffectiveForceField(arguments) ==
  IF "force_field" \in DOMAIN arguments THEN arguments.force_field ELSE "ff19SB"

EffectiveWaterModel(arguments) ==
  IF "water_model" \in DOMAIN arguments THEN arguments.water_model ELSE "tip3p"

\* Op o returns the success payload of amber_prepare_system in this step.
PrepareSucceeds(o) ==
  /\ op[o].name = "amber_prepare_system"
  /\ op[o].pc # "done"
  /\ op'[o].pc = "done"
  /\ Len(op'[o].response) = 1
  /\ op'[o].response[1].type = "text"

\* C18: the success payload of amber_prepare_system holds
\* "Force field: <force_field>" and "Water model: <water_model>", where a
\* force_field left out is "ff19SB" and a water_model left out is "tip3p",
\* and the tleap script the preparation step ran on, still in the workspace
\* when the payload is built, sources leaprc.protein.<force_field> and
\* leaprc.water.<water_model> for those same values.
C18_EffectiveParameters ==
  /\ [](\A o \in Ops :
          (/\ op[o].name = "amber_prepare_system"
           /\ Returned(o)
           /\ op[o].response[1].type = "text") =>
            LET text == op[o].response[1].text IN
            /\ text[2] = "Force field: "
            /\ text[3] = EffectiveForceField(op[o].arguments)
            /\ text[4] = "\n"
            /\ text[5] = "Water model: "
            /\ text[6] = EffectiveWaterModel(op[o].arguments)
            /\ text[7] = "\n\n")
  /\ [][\A o \in Ops :
          PrepareSucceeds(o) =>
            /\ FileExists(op[o].tmpdir, "prep.leap")
            /\ fs[op[o].tmpdir]["prep.leap"].protein =
                 "leaprc.protein." \o EffectiveForceField(op[o].arguments)
            /\ fs[op[o].tmpdir]["prep.leap"].water =
                 "leaprc.water." \o EffectiveWaterModel(op[o].arguments)
            /\ \E i \in DOMAIN procs[o] :
                 /\ procs[o][i].step = "prep"
                 /\ procs[o][i].cwd = op[o].tmpdir]_vars

C18_Witness ==
  \E o \in Ops :
    /\ op[o].name = "amber_prepare_system"
    /\ Returned(o)
    /\ op[o].response[1].type = "text"
    /\ op[o].arguments =
         [input_file |-> ValidPath, force_field |-> "ff14SB", water_model |-> "opc"]
    /\ op[o].response[1].text[3] = "ff14SB"
    /\ op[o].response[1].text[6] = "opc"

\* The steps and the restraints flag in effect for a request.
EffectiveSteps(arguments) ==
  IF "steps" \in DOMAIN arguments THEN arguments.steps ELSE 10000

EffectiveRestraints(arguments) ==
  IF "restraints" \in DOMAIN arguments THEN arguments.restraints ELSE FALSE

RelaxReturnedText(o) ==
  /\ op[o].name = "amber_relax_pdb"
  /\ Returned(o)
  /\ op[o].response[1].type = "text"

\* C19 as stated: on success of amber_relax_pdb with steps N and restraints
\* true the payload holds "Minimization steps: N" and
\* "Restraints applied: true"; steps and restraints left out are 10000 and
\* false.
C19_RestraintsLowercase ==
  \A o \in Ops :
    RelaxReturnedText(o) =>
      LET text == op[o].response[1].text IN
      /\ text[5] = "Minimization steps: "
      /\ text[6] = ToString(EffectiveSteps(op[o].arguments))
      /\ text[8] = "Restraints applied: "
      /\ EffectiveRestraints(op[o].arguments) => text[9] = "true"

\* C19 amended: on success of amber_relax_pdb with steps N and restraints
\* true the payload holds "Minimization steps: N" and
\* "Restraints applied: True" (with restraints false,
\* "Restraints applied: False"); steps and restraints left out are 10000 and
\* false.
C19_StepsAndRestraints ==
  \A o \in Ops :
    RelaxReturnedText(o) =>
      LET text == op[o].response[1].text IN
      /\ text[5] = "Minimization steps: "
      /\ text[6] = ToString(EffectiveSteps(op[o].arguments))
      /\ text[7] = "\n"
      /\ text[8] = "Restraints applied: "
      /\ text[9] = IF EffectiveRestraints(op[o].arguments) THEN "True" ELSE "False"
      /\ text[10] = "\n\n"

C19_Witness ==
  \E o \in Ops :
    /\ RelaxReturnedText(o)
    /\ op[o].arguments = [input_file |-> ValidPath, steps |-> 5000, restraints |-> TRUE]
    /\ op[o].response[1].text[6] = "5000"
    /\ op[o].response[1].text[9] = "True"

\* Workspace d holds a file of that name in the current state.
Holds(d, name) == d \in DOMAIN fs /\ name \in DOMAIN fs[d]

\* Piece a of a payload is directly followed by piece b.
Follows(text, a, b) ==
  \E i \in DOMAIN text : text[i] = a /\ i + 1 \in DOMAIN text /\ text[i + 1] = b

Has(text, a) == \E i \in DOMAIN text : text[i] = a

\* C20: in the step in which a successful operation returns, its workspace
\* still exists before the step and is gone after it, and the payload says of
\* every output file what the workspace held before the step: the
\* minimization log and the start of the minimized structure as they were,
\* the sizes of the parameter and coordinate files as they were, and nothing
\* about a file that was not there.  The payload does not change afterwards.
C20_BuiltBeforeCleanup ==
  /\ [][\A o \in Ops :
          LET d == op[o].tmpdir
              text == op'[o].response[1].text
          IN /\ (RelaxSucceeds(o) \/ PrepareSucceeds(o)) =>
                  /\ d \in DOMAIN fs
                  /\ d \notin DOMAIN fs'
             /\ RelaxSucceeds(o) =>
                  /\ Has(text, "Minimization log:\n") <=> Holds(d, "minimization.log")
                  /\ Holds(d, "minimization.log") =>
                       Follows(text, "Minimization log:\n",
                               Piece(fs[d]["minimization.log"]))
                  /\ Has(text, "Final structure coordinates:\n")
                       <=> Holds(d, "minimized.pdb")
                  /\ Holds(d, "minimized.pdb") =>
                       /\ Follows(text, "Relaxed structure saved to: ",
                                  DirPath(d, "minimized.pdb"))
                       /\ \E n \in {fs[d]["minimized.pdb"].len, 2000} :
                            Follows(text, "Final structure coordinates:\n",
                                    fs[d]["minimized.pdb"].text \o "#" \o ToString(n))
             /\ PrepareSucceeds(o) =>
                  /\ Has(text, "Parameter file generated: system.prmtop (")
                       <=> Holds(d, "system.prmtop")
                  /\ Holds(d, "system.prmtop") =>
                       Follows(text, "Parameter file generated: system.prmtop (",
                               ToString(fs[d]["system.prmtop"].len))
                  /\ Has(text, "Coordinate file generated: system.inpcrd (")
                       <=> Holds(d, "system.inpcrd")
                  /\ Holds(d, "system.inpcrd") =>
                       Follows(text, "Coordinate file generated: system.inpcrd (",
                               ToString(fs[d]["system.inpcrd"].len))]_vars
  /\ [][\A o \in Ops :
          op[o].pc = "done" => op'[o].response = op[o].response]_vars

C20_Witness ==
  \E o \in Ops :
    /\ RelaxReturnedText(o)
    /\ op[o].tmpdir # NoDir
    /\ op[o].tmpdir \notin DOMAIN fs
    /\ Follows(op[o].response[1].text, "Minimization log:\n", "pmemd log#9")
    /\ Follows(op[o].response[1].text, "Final structure coordinates:\n", "relaxed#120")

\* The size of the file the request of op o names, when that file exists.
InputSize(o) == HostFiles[op[o].arguments.input_file]

HasInputFile(o) ==
  /\ NamesInput(o)
  /\ op[o].arguments.input_file \in DOMAIN HostFiles

\* C21: validation lets through every existing input file whose size is at
\* most max_file_size: the operation goes on to create its workspace, a file
\* of exactly max_file_size bytes included; the 413 error is returned only
\* for a size strictly greater than max_file_size.
C21_SizeBoundary ==
  /\ [](\A o \in Ops :
          (/\ op[o].pc = "done"
           /\ Len(op[o].response) = 1
           /\ op[o].response[1].type = "error"
           /\ op[o].response[1].code = 413) =>
            /\ HasInputFile(o)
            /\ InputSize(o) > max_file_size)
  /\ [][\A o \in Ops :
          (/\ op[o].pc = "validate"
           /\ op'[o].pc # "validate"
           /\ HasInputFile(o)
           /\ InputSize(o) <= max_file_size) =>
            /\ op'[o].pc = "acquire"
            /\ op'[o].response = << >>]_vars

C21_Witness ==
  \E o \in Ops :
    /\ NamesInput(o)
    /\ op[o].arguments.input_file = ExactPath
    /\ InputSize(o) = max_file_size
    /\ op[o].tmpdir \in DOMAIN fs
    /\ Started(o, "prep")

\* The executable paths the configuration supplies (ServerSettings).
ConfiguredPaths == {amber_path, tleap_path, pmemd_path}

\* C22: every process of a step is started on the executable whose path the
\* configuration supplies for that step (the preparation on tleap_path, the
\* minimization on pmemd_path, the conversion on a path of the configuration
\* too), with the operation's workspace as its working directory.
C22_ConfiguredExecutables ==
  \A o \in Ops : \A i \in DOMAIN procs[o] :
    LET p == procs[o][i] IN
    /\ p.cwd = op[o].tmpdir
    /\ p.step = "prep" => p.cmd[1] = tleap_path
    /\ p.step = "min" => p.cmd[1] = pmemd_path
    /\ p.step = "conv" => p.cmd[1] \in ConfiguredPaths

\* C23: the preparation step of amber_relax_pdb is always run on a tleap
\* script that sources leaprc.water.tip3p, whether or not the request has a
\* water_model entry, and that sources leaprc.protein.<force_field> for the
\* force_field of the request, or "ff19SB" when the request has none.
C23_RelaxWaterModel ==
  \A o \in Ops :
    (/\ op[o].name = "amber_relax_pdb"
     /\ Started(o, "prep")
     /\ op[o].tmpdir \in DOMAIN fs) =>
      /\ "prep.leap" \in DOMAIN fs[op[o].tmpdir]
      /\ fs[op[o].tmpdir]["prep.leap"].water = "leaprc.water.tip3p"
      /\ fs[op[o].tmpdir]["prep.leap"].protein =
           "leaprc.protein." \o EffectiveForceField(op[o].arguments)

C23_Witness ==
  \E o \in Ops :
    /\ op[o].name = "amber_relax_pdb"
    /\ op[o].arguments =
         [input_file |-> ValidPath, force_field |-> "ff14SB", water_model |-> "opc"]
    /\ Started(o, "prep")
    /\ op[o].tmpdir \in DOMAIN fs
    /\ fs[op[o].tmpdir]["prep.leap"].water = "leaprc.water.tip3p"
    /\ fs[op[o].tmpdir]["prep.leap"].protein = "leaprc.protein.ff14SB"

\* The paths a payload gives after "Relaxed structure saved to: ".
SavedTo(text) ==
  {text[i + 1] : i \in {j \in DOMAIN text :
                          text[j] = "Relaxed structure saved to: " /\ j + 1 \in DOMAIN text}}

\* C24: a path that the success payload of amber_relax_pdb gives after
\* "Relaxed structure saved to: " is the path of minimized.pdb inside the
\* workspace of that operation, and once the operation has returned the
\* payload that workspace, and so the file at that path, no longer exists.
C24_SavedPathIsGone ==
  \A o \in Ops :
    RelaxReturnedText(o) =>
      \A P \in SavedTo(op[o].response[1].text) :
        /\ op[o].tmpdir # NoDir
        /\ P = "/tmp/tmp" \o ToString(op[o].tmpdir) \o "/minimized.pdb"
        /\ op[o].tmpdir \notin DOMAIN fs

C24_Witness ==
  \E o \in Ops :
    /\ RelaxReturnedText(o)
    /\ SavedTo(op[o].response[1].text) # {}
    /\ \E d \in Dirs :
         /\ op[o].tmpdir = d
         /\ d \notin DOMAIN fs
         /\ SavedTo(op[o].response[1].text) =
              {"/tmp/tmp" \o ToString(d) \o "/minimized.pdb"}

\* Op o is a call whose name is none of the two tools.
UnknownTool(o) ==
  /\ op[o].pc # "none"
  /\ op[o].name \notin {"amber_relax_pdb", "amber_prepare_system"}

\* C25: every call is answered, whatever its name: a call whose name is none
\* of the two tools returns one error with code 500 whose message is
\* "Unknown tool: <name>", and on its way it looks at no argument and no
\* file, logs nothing, creates no workspace and starts no process.
C25_UnknownTool ==
  /\ [](\A o \in Ops :
          UnknownTool(o) =>
            /\ op[o].pc \in {"pending", "done"}
            /\ op[o].input_path = ""
            /\ op[o].tmpdir = NoDir
            /\ procs[o] = << >>
            /\ \A l \in logged : l.op # o
            /\ op[o].pc = "done" =>
                 op[o].response =
                   <<[type |-> "error", code |-> 500,
                      message |-> <<"Unknown tool: ", op[o].name>>]>>)
  /\ [][\A o \in Ops :
          (UnknownTool(o) /\ op'[o] # op[o]) =>
            /\ op[o].pc = "pending"
            /\ op'[o].pc = "done"
            /\ fs' = fs]_vars

C25_Witness ==
  \E o \in Ops :
    /\ op[o].name = "amber_unknown"
    /\ op[o].arguments = [input_file |-> MissingPath]
    /\ op[o].pc = "done"
    /\ op[o].response[1].code = 500
    /\ op[o].response[1].message = <<"Unknown tool: ", "amber_unknown">>

====
